---------------------------- MODULE Spec2Model ----------------------------
(***************************************************************************)
(* A model of the document application: the editor page                    *)
(* (/document/<id>, src/app/page.tsx lines 43-258), the read-only view     *)
(* page (/document/<id>/view), the dashboard (/dashboard) and the toolbar  *)
(* of the rich-text editor component (src/unnamed/part_000).               *)
(*                                                                         *)
(* One page is mounted at a time (route).  A page's React state is the     *)
(* variables named as in the source; the record store is `store`, the      *)
(* requests sent to it and not yet answered are `net`.  A request is       *)
(* applied by the store and answered to the page in one step, at any time  *)
(* and in any order.                                                       *)
(***************************************************************************)
EXTENDS Integers, Sequences, FiniteSets, TLC

VARIABLES
    route,            \* the page that is mounted
    mounted,          \* FALSE once the page has been left (router.push completed)
    user,             \* useAuth().user: NoUser or a user id
    store,            \* the documents collection: id -> row
    net,              \* requests in flight
    seq,              \* number of requests issued so far by the page
    nav,              \* the last router.push target, NoNav when none
    toasts,           \* the notifications raised by the handler that ran last
    lastEvent,        \* how the handler that ran last ended, for the answers of the store

    document,         \* useState: the fetched record (editor and view page)
    title,            \* useState("")
    content,          \* useState(null)
    status,           \* useState("draft")
    isLoading,        \* useState(true)
    isSaving,         \* useState(false)
    debouncedContent, \* useDebounce(content, 1000)
    debouncedTitle,   \* useDebounce(title, 1000)
    contentTimer,     \* ms left on the pending timer of useDebounce(content), Off when none
    titleTimer,       \* ms left on the pending timer of useDebounce(title), Off when none
    fetched,          \* the mount effect has run
    edits,            \* number of onChange notifications of the editor so far
    titleEdits,       \* number of changes of the title input so far

    renderError,      \* view page: the render threw (uncaught)

    documents,        \* dashboard: useState<Document[]>([])
    searchQuery,      \* dashboard: useState("")
    statusFilter,     \* dashboard: useState("all")
    shown,            \* dashboard: filteredDocuments as last rendered

    block,            \* toolbar: type of the block holding the selection
    hist              \* history of the run, read only by the properties

vars == <<route, mounted, user, store, net, seq, nav, toasts, lastEvent,
          document, title, content, status, isLoading, isSaving,
          debouncedContent, debouncedTitle, contentTimer, titleTimer,
          fetched, edits, titleEdits, renderError, documents, searchQuery, statusFilter,
          shown, block, hist>>

editorVars == <<title, content, status, isSaving, debouncedContent,
                debouncedTitle, contentTimer, titleTimer, edits, titleEdits>>
dashVars == <<documents, searchQuery, statusFilter, shown>>

-----------------------------------------------------------------------------
(* Bounds of the model *)

MaxEdits == 3        \* changes of the content in one editing session
MaxTitleEdits == 1   \* changes of the title in one editing session
MaxWrites == 2       \* update calls issued in one editing session
Quantum == 500       \* largest step of the clock, in ms
MaxDashCalls == 2    \* insert and delete calls issued from one dashboard

(* Program constants *)

DebounceDelay == 1000

-----------------------------------------------------------------------------
(* Values *)

NoUser == "anonymous"
Users == {"u1", "u2"}
NoNav == "none"
Off == 0 - 1

EditRoute == "/document/[id]"
ViewRoute == "/document/[id]/view"
DashRoute == "/dashboard"

ParamsId == "d1"
NoDoc == [tag |-> "null"]

Statuses == {"draft", "published"}
\* A string is a sequence of characters.
Titles == {<< >>, <<"P", "l">>}

\* A content value is null, a node tree (an object) or a string.  Tree k is
\* the tree the editor holds after its k-th change (tree 1: the stored
\* one); every getJSON() result is a fresh object, told apart by k.
NullContent == [tree |-> 0]
Tree(k) == [tree |-> k]
\* The string whose JSON text denotes tree k; BadText does not parse.
Text(k) == [text |-> k]
BadText == [text |-> -1]

IsString(c) == "text" \in DOMAIN c
Truthy(c) == IF IsString(c) THEN TRUE ELSE c.tree # 0

JSONstringify(c) == [text |-> c.tree]
ParseThrows(s) == s.text < 0
JSONparse(s) == [tree |-> s.text]

Min(a, b) == IF a < b THEN a ELSE b

\* toast({...}): the notification is shown with those of the same handler.
Toast(ts, k) == ts \cup {k}

\* The handler that ran raised the notifications ts and ended as ev.
Notify(ts, ev) == toasts' = ts /\ lastEvent' = ev

-----------------------------------------------------------------------------
(* The record store *)

Row(t, c, s, u, at) ==
    [title |-> t, content |-> c, status |-> s, user_id |-> u, updated_at |-> at]

\* update(...).eq("id", id): the fields of the body replace the row's; a
\* missing row matches nothing and is no error.
ApplyUpdate(st, id, body) ==
    IF id \in DOMAIN st
    THEN [st EXCEPT ![id] =
            [f \in DOMAIN st[id] |->
                IF f \in DOMAIN body THEN body[f] ELSE st[id][f]]]
    ELSE st

\* select("*").eq("id", id).single(): the row with its id, when there is one.
Selected(st, id) ==
    [tag |-> "doc", id |-> id, title |-> st[id].title,
     content |-> st[id].content, status |-> st[id].status,
     user_id |-> st[id].user_id, updated_at |-> st[id].updated_at]

Req(n, kind, id, body) == [seq |-> n, kind |-> kind, id |-> id, body |-> body]

Pending(kind) == {r \in net : r.kind = kind}

-----------------------------------------------------------------------------
(* History of the editing session, kept for the properties only *)

NoSave == [tag |-> "none"]

InitHist ==
    [quiet |-> 0,            \* ms since the last content change, capped
     inBurst |-> FALSE,      \* the editor has raised a change
     burstChanges |-> 0,     \* changes of the current burst
     burstSaves |-> 0,       \* autosaves issued since the burst began
     burstStable |-> FALSE,  \* no title change pending or made in the burst
     lastAuto |-> NoSave,    \* the last autosave issued, and when
     lastWrite |-> NoSave,   \* the update call issued last
     failed |-> FALSE,       \* the store refused an update call
     fetch |-> "none",       \* how the fetch of the page ended
     parseFailed |-> FALSE,  \* the content of the fetched record does not parse
     deleted |-> {}]         \* the ids whose delete call succeeded

\* An autosave is one more save of the burst.
HistAuto(h, body) ==
    [h EXCEPT !.burstSaves = @ + 1,
              !.lastAuto = [body |-> body, at |-> h.quiet]]

HistWrite(h, req) == [h EXCEPT !.lastWrite = req]

-----------------------------------------------------------------------------
(* The editor page: DocumentPage *)

\* An update that carries the settled title and content.
SaveBodySettled(t, c, s, now) ==
    [title |-> debouncedTitle,
     content |-> JSONstringify(debouncedContent),
     status |-> s,
     updated_at |-> now]

\* The update of saveDocument: every field, the content as a string.
SaveBody(t, c, s, now) ==
    [title |-> t,
     content |-> IF IsString(c) THEN c ELSE JSONstringify(c),
     status |-> s,
     updated_at |-> now]

\* The update of handleStatusChange: the status alone.
StatusBody(s, now) == [status |-> s, updated_at |-> now]

\* saveDocument goes on past its first line.
SaveGuard(doc, u) == doc # NoDoc /\ u # NoUser

\* A save effect that depends on the values before they settle.
EffectDepsUnsettled(c, t, dc, dt) == <<c, t>>

\* The dependencies of the save effect, out of the page state.
EffectDeps(c, t, dc, dt) == <<dc, dt>>

\* The save effect: it runs when one of its dependencies changed, and saves
\* when the settled content is truthy and a document is loaded.
SaveEffect(depsChanged, dc, doc) == depsChanged /\ Truthy(dc) /\ doc # NoDoc

\* The render that follows a state change to content c, title t and settled
\* values dc and dt issues a save.
EffectSaves(c, t, dc, dt) ==
    /\ SaveEffect(EffectDeps(c, t, dc, dt) #
                     EffectDeps(content, title, debouncedContent, debouncedTitle),
                  dc, document)
    /\ SaveGuard(document, user)

\* useDebounce: a changed value cancels the pending timer and starts one.
Restart(timer, changed) == IF changed THEN DebounceDelay ELSE timer

\* saveDocument up to its await, called from `trigger` on the render whose
\* title, content and status are t, c and s.
IssueSave(trigger, h, t, c, s) ==
    LET req == Req(seq + 1, trigger, document.id, SaveBody(t, c, s, seq + 1))
    IN /\ isSaving' = TRUE
       /\ net' = net \cup {req}
       /\ seq' = seq + 1
       /\ hist' = HistWrite(IF trigger = "autosave" THEN HistAuto(h, req.body) ELSE h,
                            req)

\* The mount effect: fetchDocument up to its await, when a user is present.
EditorFetchDocument ==
    /\ route = EditRoute /\ mounted /\ ~fetched
    /\ user # NoUser
    /\ fetched' = TRUE
    /\ isLoading' = TRUE
    /\ net' = net \cup {Req(0, "fetch", ParamsId, NoSave)}
    /\ Notify({}, "none")
    /\ UNCHANGED <<route, mounted, user, store, seq, nav, document,
                   editorVars, renderError, dashVars, block, hist>>

\* fetchDocument: the store answered with an error, or the call threw.
EditorFetchError ==
    /\ route = EditRoute /\ mounted
    /\ \E r \in Pending("fetch") :
        /\ net' = net \ {r}
        /\ Notify(Toast({}, "Failed to fetch document"), "fetch_failed")
        /\ nav' = DashRoute
        /\ isLoading' = FALSE
        /\ UNCHANGED <<route, mounted, user, store, seq, document, editorVars,
                       fetched, renderError, dashVars, block>>
        /\ hist' = [hist EXCEPT !.fetch = "error"]

\* fetchDocument: no error and no data.
EditorFetchNoData ==
    /\ route = EditRoute /\ mounted
    /\ \E r \in Pending("fetch") :
        /\ net' = net \ {r}
        /\ nav' = DashRoute
        /\ isLoading' = FALSE
        /\ Notify({}, "fetch_nodata")
    /\ UNCHANGED <<route, mounted, user, store, seq, document,
                       editorVars, fetched, renderError, dashVars, block>>
    /\ hist' = [hist EXCEPT !.fetch = "nodata"]

\* fetchDocument: the store answered with the record.  The state is set in
\* the order of the source; a content string that does not parse throws
\* after the document and the title are set.
EditorFetchData ==
    /\ route = EditRoute /\ mounted
    /\ ParamsId \in DOMAIN store
    /\ \E r \in Pending("fetch") :
        LET data == Selected(store, ParamsId)
            throws == IsString(data.content) /\ ParseThrows(data.content)
            c == IF IsString(data.content) THEN JSONparse(data.content)
                                           ELSE data.content
        IN /\ net' = net \ {r}
           /\ document' = data
           /\ title' = data.title
           /\ titleTimer' = Restart(titleTimer, data.title # title)
           /\ isLoading' = FALSE
           /\ IF throws
              THEN UNCHANGED <<content, status, contentTimer>>
              ELSE /\ content' = c
                   /\ status' = data.status
                   /\ contentTimer' = Restart(contentTimer, c # content)
           /\ IF throws
              THEN /\ Notify(Toast({}, "Failed to fetch document"), "fetch_parse_failed")
                   /\ nav' = DashRoute
              ELSE /\ Notify({}, "fetch_ok")
                   /\ UNCHANGED nav
           /\ hist' = [hist EXCEPT !.fetch = "data",
                                   !.parseFailed = throws,
                                   !.quiet = 0,
                                   !.burstStable = ~throws /\ data.title = title]
           /\ UNCHANGED <<route, mounted, user, store, seq, isSaving,
                          debouncedContent, debouncedTitle, fetched, edits, titleEdits,
                          renderError, dashVars, block>>

\* The editor is on the page: loading is over and the content is truthy.
EditorShown == mounted /\ ~isLoading /\ Truthy(content)

\* onChange of the editor: setContent(editor.getJSON()).
EditorChangeContent ==
    /\ route = EditRoute /\ EditorShown
    /\ edits < MaxEdits
    /\ LET c == Tree(edits + 2)
           saves == EffectSaves(c, title, debouncedContent, debouncedTitle)
           h == [hist EXCEPT
                   !.quiet = 0,
                   !.inBurst = TRUE,
                   !.burstChanges = IF contentTimer = Off THEN 1 ELSE @ + 1,
                   !.burstSaves = IF contentTimer = Off THEN 0 ELSE @,
                   !.burstStable = IF contentTimer = Off THEN titleTimer = Off ELSE @]
       IN /\ saves => seq < MaxWrites
          /\ edits' = edits + 1
          /\ content' = c
          /\ contentTimer' = DebounceDelay
          /\ IF saves
             THEN IssueSave("autosave", h, title, c, status)
             ELSE /\ hist' = h
                  /\ UNCHANGED <<isSaving, net, seq>>
    /\ Notify({}, "none")
    /\ UNCHANGED <<route, mounted, user, store, nav, document, title, status,
                   isLoading, debouncedContent, debouncedTitle, titleTimer,
                   fetched, titleEdits, renderError, dashVars, block>>

\* onChange of the title input: setTitle(e.target.value).
EditorChangeTitle ==
    /\ route = EditRoute /\ mounted /\ ~isLoading
    /\ titleEdits < MaxTitleEdits
    /\ \E t \in Titles \ {title} :
        LET saves == EffectSaves(content, t, debouncedContent, debouncedTitle)
            h == [hist EXCEPT !.burstStable = FALSE]
        IN /\ saves => seq < MaxWrites
           /\ titleEdits' = titleEdits + 1
           /\ title' = t
           /\ titleTimer' = DebounceDelay
           /\ IF saves
              THEN IssueSave("autosave", h, t, content, status)
              ELSE /\ hist' = h
                   /\ UNCHANGED <<isSaving, net, seq>>
    /\ Notify({}, "none")
    /\ UNCHANGED <<route, mounted, user, store, nav, document, content, status,
                   isLoading, debouncedContent, debouncedTitle, contentTimer,
                   fetched, edits, renderError, dashVars, block>>

\* The timer of useDebounce(content) fires: the settled content becomes the
\* content, and the save effect runs on the render that follows.
ContentTimerFire ==
    /\ route = EditRoute /\ mounted
    /\ contentTimer = 0
    /\ LET saves == EffectSaves(content, title, content, debouncedTitle)
       IN /\ saves => seq < MaxWrites
          /\ debouncedContent' = content
          /\ contentTimer' = Off
          /\ IF saves
             THEN IssueSave("autosave", hist, title, content, status)
             ELSE UNCHANGED <<isSaving, net, seq, hist>>
    /\ Notify({}, "none")
    /\ UNCHANGED <<route, mounted, user, store, nav, document, title,
                   content, status, isLoading, debouncedTitle, titleTimer,
                   fetched, edits, titleEdits, renderError, dashVars, block>>

\* The timer of useDebounce(title) fires.
TitleTimerFire ==
    /\ route = EditRoute /\ mounted
    /\ titleTimer = 0
    /\ LET saves == EffectSaves(content, title, debouncedContent, title)
       IN /\ saves => seq < MaxWrites
          /\ debouncedTitle' = title
          /\ titleTimer' = Off
          /\ IF saves
             THEN IssueSave("autosave", hist, title, content, status)
             ELSE UNCHANGED <<isSaving, net, seq, hist>>
    /\ Notify({}, "none")
    /\ UNCHANGED <<route, mounted, user, store, nav, document, title,
                   content, status, isLoading, debouncedContent, contentTimer,
                   fetched, edits, titleEdits, renderError, dashVars, block>>

\* Time passes, never beyond the moment a pending timer is due.
Elapse(timer, d) == IF timer = Off THEN Off ELSE timer - d

Step ==
    LET c == IF contentTimer = Off THEN Quantum ELSE contentTimer
        t == IF titleTimer = Off THEN Quantum ELSE titleTimer
    IN Min(Quantum, Min(c, t))

Tick ==
    /\ route = EditRoute /\ mounted
    /\ contentTimer # 0 /\ titleTimer # 0
    /\ contentTimer # Off \/ titleTimer # Off
    /\ contentTimer' = Elapse(contentTimer, Step)
    /\ titleTimer' = Elapse(titleTimer, Step)
    /\ hist' = [hist EXCEPT !.quiet = Min(@ + Step, DebounceDelay)]
    /\ Notify({}, "none")
    /\ UNCHANGED <<route, mounted, user, store, net, seq, nav, document,
                   title, content, status, isLoading, isSaving, debouncedContent,
                   debouncedTitle, fetched, edits, titleEdits, renderError, dashVars, block>>

\* The Save button (disabled while isSaving): handleManualSave up to the
\* await inside saveDocument; when saveDocument returns at once, the rest of
\* handleManualSave follows.
EditorManualSave ==
    /\ route = EditRoute /\ mounted /\ ~isLoading
    /\ ~isSaving
    /\ IF SaveGuard(document, user)
       THEN /\ seq < MaxWrites
            /\ IssueSave("manual", hist, title, content, status)
            /\ Notify({}, "none")
       ELSE /\ Notify(Toast({}, "Document saved"), "save_skipped")
            /\ UNCHANGED <<isSaving, net, seq, hist>>
    /\ UNCHANGED <<route, mounted, user, store, nav, document, title, content,
                   status, isLoading, debouncedContent, debouncedTitle,
                   contentTimer, titleTimer, fetched, edits, titleEdits, renderError,
                   dashVars, block>>

\* The status select: handleStatusChange up to its await.
EditorStatusChange ==
    /\ route = EditRoute /\ mounted /\ ~isLoading
    /\ seq < MaxWrites
    /\ \E s \in Statuses \ {status} :
        LET id == IF document = NoDoc THEN "undefined" ELSE document.id
            req == Req(seq + 1, "status", id, StatusBody(s, seq + 1))
        IN /\ status' = s
           /\ net' = net \cup {req}
           /\ seq' = seq + 1
           /\ hist' = HistWrite(hist, req)
    /\ Notify({}, "none")
    /\ UNCHANGED <<route, mounted, user, store, nav, document, title,
                   content, isLoading, isSaving, debouncedContent, debouncedTitle,
                   contentTimer, titleTimer, fetched, edits, titleEdits, renderError,
                   dashVars, block>>

Saves == {"autosave", "manual"}

\* A catch block that swallows the error.
SaveCatchSilent(ts) == ts

\* The catch block of saveDocument.
SaveCatch(ts) == Toast(ts, "Failed to save document")

\* handleManualSave after saveDocument has returned.
AfterSave(r, ts) == IF r.kind = "manual" THEN Toast(ts, "Document saved") ELSE ts

\* saveDocument after its await: the update went through.
EditorSaveOk ==
    /\ route = EditRoute
    /\ \E r \in net :
        /\ r.kind \in Saves
        /\ net' = net \ {r}
        /\ store' = ApplyUpdate(store, r.id, r.body)
        /\ Notify(AfterSave(r, {}), "save_ok")
    /\ isSaving' = IF mounted THEN FALSE ELSE isSaving
    /\ UNCHANGED <<route, mounted, user, seq, nav, document, title, content,
                   status, isLoading, debouncedContent, debouncedTitle,
                   contentTimer, titleTimer, fetched, edits, titleEdits, renderError,
                   dashVars, block, hist>>

\* saveDocument after its await: the update failed.
EditorSaveFailed ==
    /\ route = EditRoute
    /\ \E r \in net :
        /\ r.kind \in Saves
        /\ net' = net \ {r}
        /\ Notify(AfterSave(r, SaveCatch({})), "save_failed")
    /\ isSaving' = IF mounted THEN FALSE ELSE isSaving
    /\ hist' = [hist EXCEPT !.failed = TRUE]
    /\ UNCHANGED <<route, mounted, user, store, seq, nav, document, title,
                   content, status, isLoading, debouncedContent, debouncedTitle,
                   contentTimer, titleTimer, fetched, edits, titleEdits, renderError,
                   dashVars, block>>

\* handleStatusChange after its await: the update went through.
EditorStatusOk ==
    /\ route = EditRoute
    /\ \E r \in Pending("status") :
        /\ net' = net \ {r}
        /\ store' = ApplyUpdate(store, r.id, r.body)
    /\ Notify(Toast({}, "Status updated"), "status_ok")
    /\ UNCHANGED <<route, mounted, user, seq, nav, document, editorVars,
                   isLoading, fetched, renderError, dashVars, block, hist>>

\* handleStatusChange after its await: the update failed.
EditorStatusFailed ==
    /\ route = EditRoute
    /\ \E r \in Pending("status") :
        /\ net' = net \ {r}
    /\ Notify(Toast({}, "Failed to update document status"), "status_failed")
    /\ hist' = [hist EXCEPT !.failed = TRUE]
    /\ UNCHANGED <<route, mounted, user, store, seq, nav, document, editorVars,
                   isLoading, fetched, renderError, dashVars, block>>

\* The page is unmounted: its state is gone, and the cleanup of useDebounce
\* clears the pending timers.  The requests in flight stay in flight.
Unmounted ==
    /\ mounted' = FALSE
    /\ document' = NoDoc
    /\ title' = << >>
    /\ content' = NullContent
    /\ status' = "draft"
    /\ isLoading' = TRUE
    /\ isSaving' = FALSE
    /\ debouncedContent' = NullContent
    /\ debouncedTitle' = << >>
    /\ contentTimer' = Off
    /\ titleTimer' = Off
    /\ edits' = 0
    /\ titleEdits' = 0
    /\ renderError' = FALSE
    /\ documents' = << >>
    /\ shown' = << >>
    /\ Notify({}, "none")
    /\ hist' = [InitHist EXCEPT !.lastWrite = hist.lastWrite,
                                !.failed = hist.failed,
                                !.fetch = hist.fetch,
                                !.parseFailed = hist.parseFailed,
                                !.deleted = hist.deleted]
    /\ UNCHANGED <<route, user, store, net, seq, fetched, searchQuery,
                   statusFilter, block>>

\* The back button of the editor page: router.push("/dashboard"), and the
\* navigation completes.
EditorBack ==
    /\ route = EditRoute /\ mounted /\ ~isLoading
    /\ nav = NoNav
    /\ nav' = DashRoute
    /\ Unmounted

\* A navigation asked for by a handler of the page completes.
Unmount ==
    /\ mounted
    /\ nav # NoNav
    /\ UNCHANGED nav
    /\ Unmounted

EditorNext ==
    \/ EditorFetchDocument
    \/ EditorFetchError
    \/ EditorFetchNoData
    \/ EditorFetchData
    \/ EditorChangeContent
    \/ EditorChangeTitle
    \/ ContentTimerFire
    \/ TitleTimerFire
    \/ Tick
    \/ EditorManualSave
    \/ EditorStatusChange
    \/ EditorSaveOk
    \/ EditorSaveFailed
    \/ EditorStatusOk
    \/ EditorStatusFailed
    \/ EditorBack

-----------------------------------------------------------------------------
(* The view page: ViewDocumentPage *)

\* A gate that lets the owner see a draft.
ViewAllowedOwner(data, u) == data.status = "published" \/ data.user_id = u

\* "Only allow viewing published documents": the requester u plays no part.
ViewAllowed(data, u) == data.status = "published"

\* The render of the page parses a content string, outside any try block.
RenderThrows(doc) == IsString(doc.content) /\ ParseThrows(doc.content)

\* The mount effect: fetchDocument up to its await, for any requester.
ViewFetchDocument ==
    /\ route = ViewRoute /\ mounted /\ ~fetched
    /\ fetched' = TRUE
    /\ isLoading' = TRUE
    /\ net' = net \cup {Req(0, "fetch", ParamsId, NoSave)}
    /\ Notify({}, "none")
    /\ UNCHANGED <<route, mounted, user, store, seq, nav, document, editorVars,
                   renderError, dashVars, block, hist>>

\* fetchDocument: the store answered with an error, or the call threw.
ViewFetchError ==
    /\ route = ViewRoute /\ mounted
    /\ \E r \in Pending("fetch") : net' = net \ {r}
    /\ Notify(Toast({}, "Failed to fetch document"), "fetch_failed")
    /\ nav' = "/"
    /\ isLoading' = FALSE
    /\ hist' = [hist EXCEPT !.fetch = "error"]
    /\ UNCHANGED <<route, mounted, user, store, seq, document, editorVars,
                   fetched, renderError, dashVars, block>>

\* fetchDocument: no error and no data.
ViewFetchNoData ==
    /\ route = ViewRoute /\ mounted
    /\ \E r \in Pending("fetch") : net' = net \ {r}
    /\ Notify({}, "fetch_nodata")
    /\ nav' = "/"
    /\ isLoading' = FALSE
    /\ hist' = [hist EXCEPT !.fetch = "nodata"]
    /\ UNCHANGED <<route, mounted, user, store, seq, document, editorVars,
                   fetched, renderError, dashVars, block>>

\* fetchDocument: the store answered with the record; the page renders it
\* when the gate lets it through.
ViewFetchData ==
    /\ route = ViewRoute /\ mounted
    /\ ParamsId \in DOMAIN store
    /\ \E r \in Pending("fetch") : net' = net \ {r}
    /\ LET data == Selected(store, ParamsId)
       IN /\ IF ViewAllowed(data, user)
             THEN /\ document' = data
                  /\ renderError' = RenderThrows(data)
                  /\ Notify({}, "fetch_ok")
                  /\ UNCHANGED nav
             ELSE /\ Notify(Toast({}, "Access denied"), "fetch_denied")
                  /\ nav' = "/"
                  /\ UNCHANGED <<document, renderError>>
          /\ hist' = [hist EXCEPT !.fetch = "data",
                                  !.parseFailed = RenderThrows(data)]
    /\ isLoading' = FALSE
    /\ UNCHANGED <<route, mounted, user, store, seq, editorVars, fetched,
                   dashVars, block>>

\* The render is past the returns for isLoading and for a null document:
\* the page of the document is what is rendered.
ViewDocumentPage == mounted /\ ~isLoading /\ document # NoDoc

\* The page of the document is on the screen.
ViewRendered == ViewDocumentPage /\ ~renderError

\* The back button of the view page: router.push("/"), and the navigation
\* completes.
ViewBack ==
    /\ route = ViewRoute /\ ViewRendered
    /\ nav = NoNav
    /\ nav' = "/"
    /\ Unmounted

ViewNext ==
    \/ ViewFetchDocument
    \/ ViewFetchError
    \/ ViewFetchNoData
    \/ ViewFetchData
    \/ ViewBack

-----------------------------------------------------------------------------
(* The dashboard: DashboardPage *)

DocIds == {"d1", "d2", "d3"}

\* toLowerCase, on the letters the titles and the queries are made of.
Lower(ch) ==
    CASE ch = "P" -> "p"
      [] ch = "L" -> "l"
      [] ch = "A" -> "a"
      [] ch = "N" -> "n"
      [] ch = "B" -> "b"
      [] ch = "O" -> "o"
      [] OTHER -> ch

ToLowerCase(str) == [i \in 1..Len(str) |-> Lower(str[i])]

\* str.includes(sub)
Includes(str, sub) ==
    \E i \in 0..(Len(str) - Len(sub)) : SubSeq(str, i + 1, i + Len(sub)) = sub

\* A search that tells the cases apart.
MatchesSearchExact(doc, q) == Includes(doc.title, q)

MatchesSearch(doc, q) == Includes(ToLowerCase(doc.title), ToLowerCase(q))

MatchesStatus(doc, f) == f = "all" \/ doc.status = f

\* filteredDocuments, computed on every render.
FilteredDocuments(docs, q, f) ==
    LET Keep(doc) == MatchesSearch(doc, q) /\ MatchesStatus(doc, f)
    IN SelectSeq(docs, Keep)

\* documents.filter((doc) => doc.id !== id)
WithoutId(docs, id) ==
    LET Keep(doc) == doc.id # id
    IN SelectSeq(docs, Keep)

\* The rows select("*") asks for: no condition on the owner.
VisibleRows(st, u) == DOMAIN st

\* order("updated_at", { ascending: false }): the rows, latest first; rows
\* of the same time come in any order.
ListResults(st, u) ==
    LET ids == VisibleRows(st, u)
        n == Cardinality(ids)
    IN {[i \in 1..n |-> Selected(st, f[i])] :
          f \in {g \in [1..n -> ids] :
                   /\ \A i, j \in 1..n : i # j => g[i] # g[j]
                   /\ \A i, j \in 1..n :
                        i < j => st[g[i]].updated_at >= st[g[j]].updated_at}}

\* The state after setDocuments(docs): the list and what the table shows.
SetDocuments(docs) ==
    /\ documents' = docs
    /\ shown' = FilteredDocuments(docs, searchQuery, statusFilter)

\* The mount effect: fetchDocuments up to its await, when a user is present.
DashFetchDocuments ==
    /\ route = DashRoute /\ mounted /\ ~fetched
    /\ user # NoUser
    /\ fetched' = TRUE
    /\ isLoading' = TRUE
    /\ net' = net \cup {Req(0, "list", "all", NoSave)}
    /\ Notify({}, "none")
    /\ UNCHANGED <<route, mounted, user, store, seq, nav, document, editorVars,
                   renderError, dashVars, block, hist>>

DashFetchOk ==
    /\ route = DashRoute /\ mounted
    /\ \E r \in Pending("list") : net' = net \ {r}
    /\ \E data \in ListResults(store, user) : SetDocuments(data)
    /\ isLoading' = FALSE
    /\ Notify({}, "list_ok")
    /\ hist' = [hist EXCEPT !.fetch = "data"]
    /\ UNCHANGED <<route, mounted, user, store, seq, nav, document, editorVars,
                   fetched, renderError, searchQuery, statusFilter, block>>

DashFetchFailed ==
    /\ route = DashRoute /\ mounted
    /\ \E r \in Pending("list") : net' = net \ {r}
    /\ isLoading' = FALSE
    /\ Notify(Toast({}, "Failed to fetch documents"), "list_failed")
    /\ hist' = [hist EXCEPT !.fetch = "error"]
    /\ UNCHANGED <<route, mounted, user, store, seq, nav, document, editorVars,
                   fetched, renderError, dashVars, block>>

\* The table is on the page, with one row per shown document.
TableShown == mounted /\ ~isLoading /\ Len(shown) > 0


\* The title of a new document, "Untitled Document".
UntitledTitle ==
    <<"U", "n", "t", "i", "t", "l", "e", "d", " ",
      "D", "o", "c", "u", "m", "e", "n", "t">>

DocRoute(id) == "/document/" \o id

\* The row createNewDocument inserts; the store gives it an id and a time.
InsertBody(u) == Row(UntitledTitle, Text(1), "draft", u, 0)

\* The "New Document" button: createNewDocument up to its await.
DashCreate ==
    /\ route = DashRoute /\ mounted
    /\ seq < MaxDashCalls
    /\ net' = net \cup {Req(seq + 1, "insert", "n" \o ToString(seq + 1),
                            InsertBody(user))}
    /\ seq' = seq + 1
    /\ Notify({}, "none")
    /\ UNCHANGED <<route, mounted, user, store, nav, document, editorVars,
                   isLoading, fetched, renderError, dashVars, block, hist>>

\* The store with one more row.
Inserted(st, id, row) ==
    [i \in DOMAIN st \cup {id} |-> IF i = id THEN row ELSE st[i]]

\* createNewDocument after its await: the row is returned; router.push to
\* the editor of the new document, and the navigation completes.
DashCreateOk ==
    /\ route = DashRoute
    /\ \E r \in Pending("insert") :
        /\ net' = net \ {r}
        /\ store' = Inserted(store, r.id, r.body)
        /\ nav' = DocRoute(r.id)
    /\ mounted' = FALSE
    /\ documents' = << >>
    /\ shown' = << >>
    /\ isLoading' = TRUE
    /\ Notify({}, "create_ok")
    /\ UNCHANGED <<route, user, seq, document, editorVars, fetched,
                   renderError, searchQuery, statusFilter, block, hist>>

\* createNewDocument after its await: no error, and no row returned.
DashCreateNoData ==
    /\ route = DashRoute
    /\ \E r \in Pending("insert") :
        /\ net' = net \ {r}
        /\ store' = Inserted(store, r.id, r.body)
    /\ Notify({}, "create_nodata")
    /\ UNCHANGED <<route, mounted, user, seq, nav, document, editorVars,
                   isLoading, fetched, renderError, dashVars, block, hist>>

\* createNewDocument after its await: the insert failed.
DashCreateFailed ==
    /\ route = DashRoute
    /\ \E r \in Pending("insert") : net' = net \ {r}
    /\ Notify(Toast({}, "Failed to create new document"), "create_failed")
    /\ hist' = [hist EXCEPT !.failed = TRUE]
    /\ UNCHANGED <<route, mounted, user, store, seq, nav, document, editorVars,
                   isLoading, fetched, renderError, dashVars, block>>

\* The Delete item of a row: deleteDocument(id) up to its await.  The
\* handler belongs to the render it was created on, and keeps the documents
\* of that render.
DashDelete ==
    /\ route = DashRoute /\ TableShown
    /\ seq < MaxDashCalls
    /\ \E i \in 1..Len(shown) :
        net' = net \cup {Req(seq + 1, "delete", shown[i].id, [docs |-> documents])}
    /\ seq' = seq + 1
    /\ Notify({}, "none")
    /\ UNCHANGED <<route, mounted, user, store, nav, document, editorVars,
                   isLoading, fetched, renderError, dashVars, block, hist>>

\* The list deleteDocument filters after its await: the documents of the
\* render the handler was created on.
DeleteBase(r) == r.body.docs

\* delete().eq("id", id): a missing row matches nothing and is no error.
Deleted(st, id) == [i \in DOMAIN st \ {id} |-> st[i]]

\* deleteDocument after its await: the delete went through.
DashDeleteOk ==
    /\ route = DashRoute
    /\ \E r \in Pending("delete") :
        /\ net' = net \ {r}
        /\ store' = Deleted(store, r.id)
        /\ IF mounted
           THEN SetDocuments(WithoutId(DeleteBase(r), r.id))
           ELSE UNCHANGED <<documents, shown>>
        /\ hist' = [hist EXCEPT !.deleted = @ \cup {r.id}]
    /\ Notify(Toast({}, "Document deleted successfully"), "delete_ok")
    /\ UNCHANGED <<route, mounted, user, seq, nav, document, editorVars,
                   isLoading, fetched, renderError, searchQuery, statusFilter,
                   block>>

\* deleteDocument after its await: the delete failed.
DashDeleteFailed ==
    /\ route = DashRoute
    /\ \E r \in Pending("delete") : net' = net \ {r}
    /\ Notify(Toast({}, "Failed to delete document"), "delete_failed")
    /\ hist' = [hist EXCEPT !.failed = TRUE]
    /\ UNCHANGED <<route, mounted, user, store, seq, nav, document, editorVars,
                   isLoading, fetched, renderError, dashVars, block>>

\* The Share item of a row: the link is copied and a notification shown.
DashShare ==
    /\ route = DashRoute /\ TableShown
    /\ Notify(Toast({}, "Shareable link copied to clipboard"), "shared")
    /\ UNCHANGED <<route, mounted, user, store, net, seq, nav, document,
                   editorVars, isLoading, fetched, renderError, dashVars, block,
                   hist>>

\* A click on a row, or its Edit item: router.push to the editor of the
\* document, and the navigation completes.
DashOpen ==
    /\ route = DashRoute /\ TableShown
    /\ nav = NoNav
    /\ \E i \in 1..Len(shown) : nav' = DocRoute(shown[i].id)
    /\ Unmounted

\* The texts typed into the search box.
Queries ==
    {<< >>, <<"P", "l", "a", "n">>, <<"p", "l", "a", "n">>,
     <<"P", "L", "A", "N">>, <<"a", "n">>, <<"N", "O">>, <<"B">>, <<"x">>}

StatusFilters == {"all", "draft", "published"}

\* onChange of the search box: setSearchQuery(e.target.value).
DashSetSearchQuery ==
    /\ route = DashRoute /\ mounted
    /\ \E q \in Queries \ {searchQuery} :
        /\ searchQuery' = q
        /\ shown' = FilteredDocuments(documents, q, statusFilter)
    /\ Notify({}, "none")
    /\ UNCHANGED <<route, mounted, user, store, net, seq, nav, document,
                   editorVars, isLoading, fetched, renderError, documents,
                   statusFilter, block, hist>>

\* An item of the filter menu: setStatusFilter(f).
DashSetStatusFilter ==
    /\ route = DashRoute /\ mounted
    /\ \E f \in StatusFilters \ {statusFilter} :
        /\ statusFilter' = f
        /\ shown' = FilteredDocuments(documents, searchQuery, f)
    /\ Notify({}, "none")
    /\ UNCHANGED <<route, mounted, user, store, net, seq, nav, document,
                   editorVars, isLoading, fetched, renderError, documents,
                   searchQuery, block, hist>>

DashNext ==
    \/ DashFetchDocuments
    \/ DashFetchOk
    \/ DashFetchFailed
    \/ DashCreate
    \/ DashCreateOk
    \/ DashCreateNoData
    \/ DashCreateFailed
    \/ DashDelete
    \/ DashDeleteOk
    \/ DashDeleteFailed
    \/ DashShare
    \/ DashOpen
    \/ DashSetSearchQuery
    \/ DashSetStatusFilter

-----------------------------------------------------------------------------
(* The toolbar of the editor component: TiptapEditor *)

ToolbarRoute == "toolbar"

HeadingButtons == {1, 2, 3}
Marks == {"bold", "italic", "strike", "code"}
Wrappers == {"bulletList", "orderedList", "blockquote"}
Heading(n) == "heading" \o ToString(n)
BlockTypes == {"paragraph"} \cup {Heading(n) : n \in HeadingButtons}
NoWrapper == "none"

\* A toolbar whose second heading button asks for level 3.
HeadingButtonLevelSlip(button) == IF button = 2 THEN 3 ELSE button

\* The level the n-th heading button passes to toggleHeading.
HeadingButtonLevel(button) == button

\* toggleHeading({ level: n }): a block at level n becomes a paragraph, a
\* block of any other type a heading of level n.
ToggleHeading(b, n) ==
    [b EXCEPT !.type = IF @ = Heading(n) THEN "paragraph" ELSE Heading(n)]

\* toggleBulletList, toggleOrderedList, toggleBlockquote: the node that
\* wraps the block is put on, or taken off when it is there.
ToggleWrapper(b, w) == [b EXCEPT !.wrapper = IF @ = w THEN NoWrapper ELSE w]

\* toggleBold, toggleItalic, toggleStrike, toggleCode.
ToggleMark(b, m) ==
    [b EXCEPT !.marks = IF m \in @ THEN @ \ {m} ELSE @ \cup {m}]

\* The presses of the "Heading 2" button in a row, and the type of the
\* block before the first of them.
HistPress(h, button, before, after) ==
    IF button = 2
    THEN IF h.presses < 2
         THEN [h EXCEPT !.presses = @ + 1]
         ELSE [orig |-> before, presses |-> 1]
    ELSE [orig |-> after, presses |-> 0]

ToolbarUnchanged ==
    UNCHANGED <<route, mounted, user, store, net, seq, nav, toasts, lastEvent,
                document, editorVars, isLoading, fetched, renderError,
                dashVars>>

\* A heading button is pressed.
ToolbarToggleHeading ==
    /\ route = ToolbarRoute
    /\ \E button \in HeadingButtons :
        /\ block' = ToggleHeading(block, HeadingButtonLevel(button))
        /\ hist' = HistPress(hist, button, block.type, block'.type)
    /\ ToolbarUnchanged

\* A list or blockquote button is pressed: the type of the block stays.
ToolbarToggleWrapper ==
    /\ route = ToolbarRoute
    /\ \E w \in Wrappers : block' = ToggleWrapper(block, w)
    /\ UNCHANGED hist
    /\ ToolbarUnchanged

\* A mark button is pressed: the type of the block stays.
ToolbarToggleMark ==
    /\ route = ToolbarRoute
    /\ \E m \in Marks : block' = ToggleMark(block, m)
    /\ UNCHANGED hist
    /\ ToolbarUnchanged

ToolbarNext ==
    \/ ToolbarToggleHeading
    \/ ToolbarToggleWrapper
    \/ ToolbarToggleMark

-----------------------------------------------------------------------------
(* The initial states *)

InitPageState ==
    /\ mounted = TRUE
    /\ net = {}
    /\ seq = 0
    /\ nav = NoNav
    /\ toasts = {}
    /\ lastEvent = "none"
    /\ document = NoDoc
    /\ title = << >>
    /\ content = NullContent
    /\ status = "draft"
    /\ isLoading = TRUE
    /\ isSaving = FALSE
    /\ debouncedContent = NullContent
    /\ debouncedTitle = << >>
    /\ contentTimer = Off
    /\ titleTimer = Off
    /\ fetched = FALSE
    /\ edits = 0
    /\ titleEdits = 0
    /\ renderError = FALSE
    /\ documents = << >>
    /\ searchQuery = << >>
    /\ statusFilter = "all"
    /\ shown = << >>

InitPage ==
    /\ InitPageState
    /\ block = [type |-> "paragraph", wrapper |-> NoWrapper, marks |-> {}]
    /\ hist = InitHist

\* The document /document/d1 of user u1, or no such document.
StoredRows ==
    {Row(<< >>, Text(1), "draft", "u1", 0),
     Row(<<"P", "l">>, Tree(1), "published", "u1", 0),
     Row(<<"P", "l">>, BadText, "draft", "u1", 0),
     Row(<<"P", "l">>, BadText, "published", "u1", 0)}

InitStoreOne ==
    \/ store = << >>
    \/ \E row \in StoredRows : store = [i \in {ParamsId} |-> row]

InitEditor ==
    /\ route = EditRoute
    /\ user \in Users \cup {NoUser}
    /\ InitStoreOne
    /\ InitPage

\* The record a view link may point at: of any owner, draft or published,
\* its content a string, an object or a string that does not parse.
ViewStoredRows ==
    {Row(<<"P", "l">>, c, st, u, 0) :
        c \in {Text(1), Tree(1), BadText}, st \in Statuses, u \in Users}

InitView ==
    /\ route = ViewRoute
    /\ user \in Users \cup {NoUser}
    /\ \/ store = << >>
       \/ \E row \in ViewStoredRows : store = [i \in {ParamsId} |-> row]
    /\ InitPage

\* The documents of the dashboard's store: some of another user, two of the
\* same time.
PlanA == <<"P", "l", "a", "n", " ", "A">>
PlanB == <<"P", "l", "a", "n", " ", "B">>
Notes == <<"N", "o", "t", "e", "s">>
LowerPlan == <<"p", "l", "a", "n", " ", "b">>

DashStores ==
    {<< >>,
     [i \in {"d1", "d2"} |->
        IF i = "d1" THEN Row(PlanA, Text(1), "draft", "u1", 1)
                    ELSE Row(PlanB, Text(1), "published", "u1", 2)],
     [i \in DocIds |->
        CASE i = "d1" -> Row(PlanA, Text(1), "draft", "u1", 3)
          [] i = "d2" -> Row(PlanB, Text(1), "published", "u1", 2)
          [] OTHER -> Row(Notes, Text(1), "draft", "u2", 2)]}

InitDash ==
    /\ route = DashRoute
    /\ user \in Users \cup {NoUser}
    /\ store \in DashStores
    /\ InitPage

Init == InitEditor \/ InitView \/ InitDash

Next == EditorNext \/ ViewNext \/ DashNext \/ Unmount

Spec == Init /\ [][Next]_vars

\* The view page on its own.
ViewPageNext == ViewNext \/ Unmount

SpecView == InitView /\ [][ViewPageNext]_vars

\* The filter of the dashboard on its own: the document lists it is given.
FilterDocs ==
    {[tag |-> "doc", id |-> "d1", title |-> PlanA, content |-> Text(1),
      status |-> "draft", user_id |-> "u1", updated_at |-> 3],
     [tag |-> "doc", id |-> "d2", title |-> PlanB, content |-> Text(1),
      status |-> "published", user_id |-> "u1", updated_at |-> 2],
     [tag |-> "doc", id |-> "d3", title |-> Notes, content |-> Text(1),
      status |-> "draft", user_id |-> "u1", updated_at |-> 1],
     [tag |-> "doc", id |-> "d4", title |-> LowerPlan, content |-> Text(1),
      status |-> "published", user_id |-> "u1", updated_at |-> 0]}

MaxDocs == 3

DocLists ==
    UNION {{l \in [1..n -> FilterDocs] : \A i, j \in 1..n : i # j => l[i] # l[j]} :
             n \in 0..MaxDocs}

InitFilter ==
    /\ route = DashRoute
    /\ user = "u1"
    /\ store = << >>
    /\ mounted = TRUE
    /\ net = {}
    /\ seq = 0
    /\ nav = NoNav
    /\ toasts = {}
    /\ lastEvent = "list_ok"
    /\ document = NoDoc
    /\ title = << >>
    /\ content = NullContent
    /\ status = "draft"
    /\ isLoading = FALSE
    /\ isSaving = FALSE
    /\ debouncedContent = NullContent
    /\ debouncedTitle = << >>
    /\ contentTimer = Off
    /\ titleTimer = Off
    /\ fetched = TRUE
    /\ edits = 0
    /\ titleEdits = 0
    /\ renderError = FALSE
    /\ documents \in DocLists
    /\ searchQuery = << >>
    /\ statusFilter = "all"
    /\ shown = FilteredDocuments(documents, searchQuery, statusFilter)
    /\ block = [type |-> "paragraph", wrapper |-> NoWrapper, marks |-> {}]
    /\ hist = [InitHist EXCEPT !.fetch = "data"]

FilterNext == DashSetSearchQuery \/ DashSetStatusFilter

SpecFilter == InitFilter /\ [][FilterNext]_vars

\* The toolbar on its own: the selection is in a block of any type.
InitToolbar ==
    /\ route = ToolbarRoute
    /\ user = NoUser
    /\ store = << >>
    /\ InitPageState
    /\ \E t \in BlockTypes :
        /\ block = [type |-> t, wrapper |-> NoWrapper, marks |-> {}]
        /\ hist = [orig |-> t, presses |-> 0]

SpecToggle == InitToolbar /\ [][ToolbarNext]_vars

-----------------------------------------------------------------------------
(* Properties *)

\* C1: in a burst of content changes, each made while the timer of the one
\* before is pending, with no change of the title pending or made, no save is
\* issued while the timer is pending; once it has fired exactly one save has
\* been issued, 1000 ms after the last change, with the content of the last
\* change.
C1_DebounceCoalescing ==
    (route = EditRoute /\ mounted /\ hist.inBurst /\ hist.burstStable) =>
        /\ contentTimer # Off => hist.burstSaves = 0
        /\ contentTimer = Off =>
              /\ hist.burstSaves = 1
              /\ hist.lastAuto.body.content = JSONstringify(content)
              /\ hist.lastAuto.at = DebounceDelay

\* A burst of three changes has been saved.
C1_Witness ==
    /\ route = EditRoute /\ mounted /\ hist.inBurst /\ hist.burstStable
    /\ hist.burstChanges = 3
    /\ contentTimer = Off
    /\ hist.burstSaves = 1


\* C2: on the view page, for every requester (signed in or not, owner or
\* not), the render reaches the page of the document if and only if the
\* fetched record is published; for a draft the document state stays null,
\* "Access denied" is shown and the viewer is sent to "/".
C2_VisibilityGate ==
    (route = ViewRoute /\ mounted /\ hist.fetch = "data") =>
        LET published == store[ParamsId].status = "published"
        IN /\ ViewDocumentPage <=> published
           /\ ~published =>
                 /\ document = NoDoc
                 /\ nav = "/"
                 /\ lastEvent = "fetch_denied"
                 /\ "Access denied" \in toasts

\* The owner has asked for the view page of a draft of theirs and is turned
\* away.
C2_Witness ==
    /\ route = ViewRoute /\ mounted
    /\ hist.fetch = "data"
    /\ user = store[ParamsId].user_id
    /\ store[ParamsId].status = "draft"
    /\ document = NoDoc
    /\ nav = "/"
    /\ "Access denied" \in toasts

\* C3: once a delete of an id has succeeded, the id is not in the document
\* list of the dashboard, whatever deletes were issued and however they
\* overlapped.
C3_DeleteFinality ==
    route = DashRoute =>
        \A i \in 1..Len(documents) : documents[i].id \notin hist.deleted

\* C4: a failed update of saveDocument leaves title, content and status as
\* they were, shows a failure notification, does not navigate, ends with the
\* saving indicator false and with a save possible again; a failed create or
\* delete of the dashboard shows a notification, does not navigate and
\* leaves the document list as it was.
C4_FailedWriteKeepsState ==
    [][/\ lastEvent' = "save_failed" =>
            /\ title' = title /\ content' = content /\ status' = status
            /\ document' = document
            /\ nav' = nav
            /\ "Failed to save document" \in toasts'
            /\ isSaving' = FALSE
            /\ mounted' => (SaveGuard(document', user') /\ ~isLoading')
       /\ lastEvent' = "create_failed" =>
            /\ documents' = documents /\ shown' = shown
            /\ nav' = nav
            /\ "Failed to create new document" \in toasts'
       /\ lastEvent' = "delete_failed" =>
            /\ documents' = documents /\ shown' = shown
            /\ nav' = nav
            /\ "Failed to delete document" \in toasts']_vars

\* A save has failed on a page that holds edits of the content and of the
\* title.
C4_Witness ==
    /\ route = EditRoute /\ mounted
    /\ lastEvent = "save_failed"
    /\ edits > 0 /\ titleEdits > 0
    /\ content = Tree(edits + 1)
    /\ ~isSaving

\* C5: once every write of the session has completed, none refused, the
\* stored title, content and status are those of the write issued last,
\* in whatever order the store applied the writes.
C5_LastIssuedWins ==
    (/\ route = EditRoute
     /\ hist.lastWrite # NoSave
     /\ ~hist.failed
     /\ \A r \in net : r.kind \notin Saves \cup {"status"}
     /\ hist.lastWrite.id \in DOMAIN store) =>
        \A f \in {"title", "content", "status"} \cap DOMAIN hist.lastWrite.body :
            store[hist.lastWrite.id][f] = hist.lastWrite.body[f]

\* The page's safe default.
SafeDefault == IF route = EditRoute THEN DashRoute ELSE "/"

\* C6: when the stored content is a string that does not deserialize, the
\* page (editor or view) renders no editor for the document, issues no save
\* for it, and sends the user to its safe default with a notification.
C6_ParseFailedHandled ==
    (route \in {EditRoute, ViewRoute} /\ hist.fetch = "data" /\ hist.parseFailed) =>
        /\ ~renderError
        /\ mounted => ~EditorShown
        /\ mounted => nav = SafeDefault
        /\ lastEvent \in {"fetch_parse_failed", "fetch_ok", "fetch_denied"} =>
              toasts # {}
        /\ hist.lastWrite = NoSave

Writes == {r \in net : r.kind \in Saves \cup {"status"}}

\* C7: on the edit route and on the view route, a signed-in user who is not
\* the owner of a record never has a draft loaded into the page, and never
\* issues a write to it.
C7_NonOwnerSeesPublishedOnly ==
    (route \in {EditRoute, ViewRoute} /\ user \in Users) =>
        /\ (document # NoDoc /\ document.user_id # user) =>
              document.status = "published"
        /\ \A r \in Writes :
              (r.id \in DOMAIN store /\ store[r.id].user_id # user) =>
                  (document # NoDoc /\ document.status = "published")

\* updated_at never grows along the list.
SortedDesc(docs) ==
    \A i, j \in 1..Len(docs) : i < j => docs[i].updated_at >= docs[j].updated_at

\* C8: after fetchDocuments has succeeded, every record of the documents
\* state belongs to the signed-in user, and the records are in descending
\* order of updated_at.
C8_ListScopedToCaller ==
    (route = DashRoute /\ lastEvent = "list_ok") =>
        /\ \A i \in 1..Len(documents) : documents[i].user_id = user
        /\ SortedDesc(documents)

\* Two characters that are the same letter, in either case.
CasePairs ==
    {<<"P", "p">>, <<"L", "l">>, <<"A", "a">>, <<"N", "n">>, <<"B", "b">>,
     <<"O", "o">>}

SameLetter(a, b) == a = b \/ <<a, b>> \in CasePairs \/ <<b, a>> \in CasePairs

\* The text q occurs in the title t, the case of the letters set aside.
ContainsAnyCase(t, q) ==
    \E i \in 0..(Len(t) - Len(q)) :
        \A k \in 1..Len(q) : SameLetter(t[i + k], q[k])

\* The places of the list that the search text and the status filter keep.
Kept(docs, q, f) ==
    {i \in 1..Len(docs) :
        /\ ContainsAnyCase(docs[i].title, q)
        /\ f \in {"all", docs[i].status}}

\* out is the list docs cut down to the places in keep, in the order of docs.
IsSubSequenceAt(out, docs, keep) ==
    /\ Len(out) = Cardinality(keep)
    /\ \A j \in 1..Len(out) :
        \E i \in keep :
            /\ out[j] = docs[i]
            /\ Cardinality({k \in keep : k < i}) = j - 1

\* C9: whatever the document list, the search text and the status filter,
\* the displayed list is the sub-sequence, in the original order, of the
\* documents whose title contains the search text in any case and whose
\* status is the one of the filter, or any status when the filter is "all".
C9_FilterExactSubSequence ==
    (route = DashRoute /\ mounted) =>
        IsSubSequenceAt(shown, documents, Kept(documents, searchQuery, statusFilter))

\* Plan A (draft), Plan B (published) and Notes (draft), searched for "Plan"
\* among the drafts: Plan A alone is displayed.
C9_Witness ==
    /\ route = DashRoute /\ mounted
    /\ Len(documents) = 3
    /\ documents[1].title = PlanA /\ documents[1].status = "draft"
    /\ documents[2].title = PlanB /\ documents[2].status = "published"
    /\ documents[3].title = Notes /\ documents[3].status = "draft"
    /\ searchQuery = <<"P", "l", "a", "n">>
    /\ statusFilter = "draft"
    /\ shown = <<documents[1]>>

\* C10 as stated: for every block type, two presses of "Heading 2" in a
\* row leave the block with the type it had before them.
C10_ToggleTwiceRestores ==
    (route = ToolbarRoute /\ hist.presses = 2) => block.type = hist.orig

\* C10 as amended: two presses of "Heading 2" in a row leave a paragraph a
\* paragraph and a heading of level 2 a heading of level 2; they leave a
\* heading of level 1 or 3 a paragraph.
C10_ToggleTwice ==
    (route = ToolbarRoute /\ hist.presses = 2) =>
        /\ hist.orig \in {"paragraph", Heading(2)} => block.type = hist.orig
        /\ hist.orig \in {Heading(1), Heading(3)} => block.type = "paragraph"

\* "Heading 2" has been pressed twice on a heading of level 2 that holds
\* bold text.
C10_Witness ==
    /\ route = ToolbarRoute
    /\ hist.presses = 2
    /\ hist.orig = Heading(2)
    /\ block.type = Heading(2)
    /\ "bold" \in block.marks

\* C11: content and title are debounced independently; whenever a settled
\* value changes while a document is loaded and the settled content is
\* non-empty, an update is issued that carries the title, the content and
\* the status the page holds at that moment, settled or not.
C11_SaveOnEitherSettled ==
    [][(route = EditRoute /\ mounted') =>
          /\ (/\ debouncedContent' # debouncedContent \/ debouncedTitle' # debouncedTitle
              /\ document' # NoDoc
              /\ Truthy(debouncedContent')) =>
                \E r \in net' \ net :
                    /\ r.kind = "autosave"
                    /\ r.id = document'.id
                    /\ r.body.title = title'
                    /\ r.body.content = JSONstringify(content')
                    /\ r.body.status = status'
          /\ (content' # content /\ title' = title) =>
                (titleTimer' = titleTimer /\ debouncedTitle' = debouncedTitle)
          /\ (title' # title /\ content' = content) =>
                (contentTimer' = contentTimer /\ debouncedContent' = debouncedContent)
          /\ debouncedContent' # debouncedContent =>
                (debouncedTitle' = debouncedTitle /\ titleTimer' = titleTimer)
          /\ debouncedTitle' # debouncedTitle =>
                (debouncedContent' = debouncedContent /\ contentTimer' = contentTimer)
      ]_vars

\* The title has settled while a change of the content is pending, and the
\* save it triggered carries the content that has not settled.
C11_Witness ==
    /\ route = EditRoute /\ mounted
    /\ titleEdits > 0 /\ titleTimer = Off /\ debouncedTitle = title
    /\ contentTimer # Off /\ content # debouncedContent
    /\ hist.lastWrite # NoSave
    /\ hist.lastWrite.kind = "autosave"
    /\ hist.lastWrite.body.title = title
    /\ hist.lastWrite.body.content = JSONstringify(content)

\* C12: whenever a fetch by id ends without a record, because the store
\* reports an error or returns no data, no document is loaded into the page,
\* the safe page is pushed, a notification is shown and isLoading is false.
C12_NotFoundHandled ==
    (/\ route \in {EditRoute, ViewRoute} /\ mounted
     /\ lastEvent \in {"fetch_failed", "fetch_nodata"}) =>
        /\ document = NoDoc
        /\ nav = SafeDefault
        /\ ~isLoading
        /\ toasts # {}

\* C13: in the editor page isSaving is true whenever a save of the session,
\* autosave or manual, is in flight.
C13_SavingWhileInFlight ==
    (route = EditRoute /\ mounted /\ \E r \in net : r.kind \in Saves) => isSaving

\* C14: "Document saved" is shown only when the update call of a manual save
\* succeeded; a failed or skipped manual save shows the failure notification
\* or none.
C14_SavedOnlyOnSuccess ==
    (route = EditRoute /\ "Document saved" \in toasts) => lastEvent = "save_ok"

\* C15: as long as the user has changed neither title nor content, has not
\* changed the status and has not pressed Save, the editor issues no update;
\* the first update of a session without edits is never an autosave.
C15_NoWriteWithoutEdit ==
    (/\ route = EditRoute /\ mounted
     /\ edits = 0 /\ titleEdits = 0
     /\ seq = 1 /\ hist.lastWrite # NoSave) =>
        hist.lastWrite.kind # "autosave"

=============================================================================
